---- MODULE Spec2Model ----
(***************************************************************************)
(* A model of setup_utilities.py: ensure_folders over a small filesystem   *)
(* tree, init_logger over the process-wide root logger, and init_args over *)
(* an argparse parser built from the three schema tables.                  *)
(***************************************************************************)
EXTENDS Integers, Sequences, FiniteSets, TLC

VARIABLES
    fs,            \* the filesystem: path -> "none" | "dir" | "file"
    pre,           \* the filesystem before the last ensure_folders call
    folder_list,   \* the argument of the last ensure_folders call
    status,        \* how the last ensure_folders call ended
    failedAt,      \* index of the path whose mkdir raised (0: none)
    warned,        \* logging.warning calls made by the last ensure_folders call
    again,         \* the last call repeated the successful call before it
    level,         \* the root logger's level
    handlers,      \* the root logger's handlers, in the order attached
    prevHandlers,  \* the handlers before the last init_logger call
    history,       \* the init_logger calls made so far, with how each ended
    record,        \* severity of the last record logged since then (0: none)
    written,       \* indices of the handlers that wrote that record
    consoleLines,  \* console lines that record produced
    arg_names,     \* init_args: the names to expose, in order
    value_args,    \* init_args: name -> converter, for the value-taking names
    help_messages, \* init_args: name -> help text
    argv,          \* the command line tokens (sys.argv[1:])
    argsStatus,    \* "idle", or how the init_args call ended
    parsed,        \* whether parser.parse_args() was reached
    namespace      \* the object init_args returned: name -> value

fsVars == <<fs, pre, folder_list, status, failedAt, warned, again>>
logVars == <<level, handlers, prevHandlers, history, record, written, consoleLines>>
argVars == <<arg_names, value_args, help_messages, argv, argsStatus, parsed, namespace>>
vars == <<fsVars, logVars, argVars>>

(***************************************************************************)
(* Bounds                                                                  *)
(***************************************************************************)
\* longest folder_list passed to ensure_folders
MaxLen == 2
\* init_logger calls in one run of the process
MaxCalls == 2
\* longest arg_names passed to init_args
MaxArgs == 2
\* longest command line
MaxTokens == 3

(***************************************************************************)
(* Logging levels (the logging module's numeric values)                    *)
(***************************************************************************)
NOTSET == 0
INFO == 20
WARNING == 30
\* DEBUG, INFO, WARNING, ERROR, CRITICAL
Levels == {10, 20, 30, 40, 50}

(***************************************************************************)
(* The filesystem                                                          *)
(***************************************************************************)
\* paths are sequences of components below the working directory; the tree
\* holds a chain a/b/c and a sibling a/d
Leaves == {<<"a", "b", "c">>, <<"a", "d">>}
Root == <<>>
Parent(p) == IF Len(p) = 0 THEN p ELSE SubSeq(p, 1, Len(p) - 1)
Ancestors(p) == {SubSeq(p, 1, k) : k \in 0..(Len(p) - 1)}
Paths == UNION {Ancestors(l) \cup {l} : l \in Leaves}

WellFormedFS(f) ==
    /\ f[Root] = "dir"
    /\ \A p \in Paths \ {Root} : f[p] # "none" => f[Parent(p)] = "dir"

FileSystems == {f \in [Paths -> {"none", "dir", "file"}] : WellFormedFS(f)}

\* os.mkdir(p): one directory, its parent must be a directory
OsMkdir(f, p) ==
    IF \E q \in Ancestors(p) : f[q] = "file"
    THEN [err |-> "NotADirectoryError", fs |-> f]
    ELSE IF \E q \in Ancestors(p) : f[q] = "none"
    THEN [err |-> "FileNotFoundError", fs |-> f]
    ELSE IF f[p] # "none"
    THEN [err |-> "FileExistsError", fs |-> f]
    ELSE [err |-> "ok", fs |-> [f EXCEPT ![p] = "dir"]]

\* pathlib.Path.mkdir(parents, exist_ok)
RECURSIVE PathMkdir(_, _, _, _)
PathMkdir(f, p, parents, exist_ok) ==
    LET r == OsMkdir(f, p) IN
    IF r.err = "ok" THEN r
    ELSE IF r.err = "FileNotFoundError"
    THEN IF ~parents \/ Parent(p) = p THEN r
         ELSE LET r1 == PathMkdir(f, Parent(p), TRUE, TRUE) IN
              IF r1.err # "ok" THEN r1
              ELSE PathMkdir(r1.fs, p, FALSE, exist_ok)
    ELSE IF ~exist_ok \/ f[p] # "dir" THEN r
    ELSE [err |-> "ok", fs |-> f]

\* mkdir without parents=True
MkdirNoParents(f, p) == PathMkdir(f, p, FALSE, TRUE)
\* mkdir without exist_ok=True
MkdirNoExistOk(f, p) == PathMkdir(f, p, TRUE, FALSE)

\* Path(folder_path).mkdir(parents=True, exist_ok=True)
Mkdir(f, p) == PathMkdir(f, p, TRUE, TRUE)

(***************************************************************************)
(* ensure_folders                                                          *)
(***************************************************************************)
\* the values a caller may pass: a list of paths, one path string, or None
ListArgs == {[kind |-> "list", items |-> s, path |-> Root] :
                s \in UNION {[1..n -> Paths] : n \in 0..MaxLen}}
StrArgs == {[kind |-> "str", items |-> <<>>, path |-> p] : p \in Paths}
NoneArg == [kind |-> "none", items |-> <<>>, path |-> Root]
Args == ListArgs \cup StrArgs \cup {NoneArg}

IsList(a) == a.kind = "list"

\* folder_list = [folder_list] if not isinstance(folder_list, list) else folder_list
Normalize(a) ==
    IF ~IsList(a)
    THEN <<[none |-> a.kind = "none", path |-> a.path]>>
    ELSE [i \in 1..Len(a.items) |-> [none |-> FALSE, path |-> a.items[i]]]

\* a loop that swallows a failed mkdir and goes on with the next path
RECURSIVE MkdirLoopContinue(_, _, _)
MkdirLoopContinue(f, list, i) ==
    IF i > Len(list) THEN [err |-> "ok", fs |-> f, failedAt |-> 0]
    ELSE IF list[i].none THEN [err |-> "TypeError", fs |-> f, failedAt |-> i]
    ELSE MkdirLoopContinue(Mkdir(f, list[i].path).fs, list, i + 1)

\* for folder_path in folder_list: Path(folder_path).mkdir(...)
RECURSIVE MkdirLoop(_, _, _)
MkdirLoop(f, list, i) ==
    IF i > Len(list) THEN [err |-> "ok", fs |-> f, failedAt |-> 0]
    ELSE IF list[i].none THEN [err |-> "TypeError", fs |-> f, failedAt |-> i]
    ELSE LET r == Mkdir(f, list[i].path) IN
         IF r.err # "ok" THEN [err |-> r.err, fs |-> r.fs, failedAt |-> i]
         ELSE MkdirLoop(r.fs, list, i + 1)

\* Handler.handle: a handler writes a record of severity s at or above its level
Writes(h, s) == s >= h.level

\* Logger.log on the root logger: isEnabledFor, then callHandlers
WrittenBy(lvl, hs, s) ==
    IF s >= lvl THEN {i \in DOMAIN hs : Writes(hs[i], s)} ELSE {}

\* lines on the console: one per stream handler that wrote the record, or
\* logging.lastResort (WARNING, stderr) when the logger has no handler at all
ConsoleLines(lvl, hs, s) ==
    IF Len(hs) = 0
    THEN IF s >= lvl /\ s >= WARNING THEN 1 ELSE 0
    ELSE Cardinality({i \in WrittenBy(lvl, hs, s) : hs[i].kind = "stream"})

\* logging.warning(msg): basicConfig() when the root logger has no handler
LoggingWarning ==
    LET hs == IF Len(handlers) = 0
              THEN <<[kind |-> "stream", level |-> NOTSET]>>
              ELSE handlers
    IN /\ handlers' = hs
       /\ record' = WARNING
       /\ written' = WrittenBy(level, hs, WARNING)
       /\ consoleLines' = ConsoleLines(level, hs, WARNING)
       /\ UNCHANGED <<level, history, prevHandlers>>

EnsureFolders(a) ==
    LET list == Normalize(a) IN
    /\ pre' = fs
    /\ folder_list' = a
    /\ again' = (status = "ok" /\ a = folder_list)
    /\ IF Len(list) = 0
       THEN /\ LoggingWarning
            /\ warned' = 1
            /\ fs' = fs
            /\ status' = "ok"
            /\ failedAt' = 0
       ELSE LET r == MkdirLoop(fs, list, 1) IN
            /\ fs' = r.fs
            /\ status' = r.err
            /\ failedAt' = r.failedAt
            /\ warned' = 0
            /\ UNCHANGED logVars
    /\ UNCHANGED argVars

(***************************************************************************)
(* init_logger                                                             *)
(***************************************************************************)
\* logfile_path values: one the process can open for appending, one it cannot
LogPaths == {"run.log", "missing/run.log"}

\* logging.FileHandler(logfile_path) opens the file when it is constructed
CanOpen(path) == path = "run.log"

LoggerCalls ==
    [log_level : Levels, log_to_stream : BOOLEAN, log_to_file : BOOLEAN,
     logfile_path : LogPaths]

\* file_handler = logging.FileHandler(logfile_path); file_handler.setLevel(log_level)
FileHandler(c) == [kind |-> "file", level |-> c.log_level]

\* the console sink built from the file sink's block
StreamHandlerAsFile(c) == [kind |-> "file", level |-> c.log_level]

\* stream_handler = logging.StreamHandler(); stream_handler.setLevel(log_level)
StreamHandler(c) == [kind |-> "stream", level |-> c.log_level]

\* a logger that keeps only the newest handler
AddHandlerReplacing(hs, h) == <<h>>

\* logger.addHandler(h)
AddHandler(hs, h) == Append(hs, h)

\* a threshold that is only ever lowered
SetLevelKeepLowest(lvl, c) == IF c.log_level < lvl THEN c.log_level ELSE lvl

\* logger.setLevel(log_level)
SetLevel(lvl, c) == c.log_level

\* the two sink blocks in the other order: the console sink first
InitLoggerStreamFirst(c) ==
    /\ Len(history) < MaxCalls
    /\ level' = SetLevel(level, c)
    /\ prevHandlers' = handlers
    /\ LET withStream == IF c.log_to_stream
                         THEN AddHandler(handlers, StreamHandler(c))
                         ELSE handlers
       IN IF c.log_to_file /\ ~CanOpen(c.logfile_path)
          THEN /\ handlers' = withStream
               /\ history' = Append(history, [call |-> c, ok |-> FALSE])
          ELSE /\ handlers' = IF c.log_to_file
                              THEN AddHandler(withStream, FileHandler(c))
                              ELSE withStream
               /\ history' = Append(history, [call |-> c, ok |-> TRUE])
    /\ record' = 0 /\ written' = {} /\ consoleLines' = 0
    /\ UNCHANGED <<fsVars, argVars>>

InitLogger(c) ==
    /\ Len(history) < MaxCalls
    /\ level' = SetLevel(level, c)
    /\ prevHandlers' = handlers
    /\ IF c.log_to_file /\ ~CanOpen(c.logfile_path)
       THEN \* FileHandler raises: nothing after it runs
            /\ handlers' = handlers
            /\ history' = Append(history, [call |-> c, ok |-> FALSE])
       ELSE LET withFile == IF c.log_to_file
                            THEN AddHandler(handlers, FileHandler(c))
                            ELSE handlers
            IN /\ handlers' = IF c.log_to_stream
                              THEN AddHandler(withFile, StreamHandler(c))
                              ELSE withFile
               /\ history' = Append(history, [call |-> c, ok |-> TRUE])
    /\ record' = 0 /\ written' = {} /\ consoleLines' = 0
    /\ UNCHANGED <<fsVars, argVars>>

\* the application logs a record of severity s through the root logger
Log(s) ==
    /\ record' = s
    /\ written' = WrittenBy(level, handlers, s)
    /\ consoleLines' = ConsoleLines(level, handlers, s)
    /\ UNCHANGED <<level, handlers, prevHandlers, history>>
    /\ UNCHANGED <<fsVars, argVars>>

(***************************************************************************)
(* init_args                                                               *)
(***************************************************************************)
Names == {"count", "verbose", "help"}
ValueNames == {"count", "verbose"}
Converters == {"int", "str"}
HelpTexts == {"text"}

\* a token "--<text>" (opt) or a plain word; the command lines are built
\* from the full flags of the names and two words, so no abbreviated flag
\* (argparse's prefix matching) and no "--name=value" form occurs
Flag(n) == [opt |-> TRUE, text |-> n]
Word(w) == [opt |-> FALSE, text |-> w]
Tokens == {Flag(n) : n \in Names} \cup {Word("5"), Word("x")}

\* values of the returned object's fields
IntVal(n) == [type |-> "int", num |-> n, text |-> ""]
StrVal(t) == [type |-> "str", num |-> 0, text |-> t]
BoolVal(b) == [type |-> "bool", num |-> IF b THEN 1 ELSE 0, text |-> ""]
NoneVal == [type |-> "none", num |-> 0, text |-> ""]

\* the converters: int(token) raises ValueError on a non-numeral, str(token) never
Convertible(conv, t) == conv = "str" \/ t = "5"
Convert(conv, t) == IF conv = "int" THEN IntVal(5) ELSE StrVal(t)

\* argparse.ArgumentParser(description=...): add_help registers -h/--help
NewParser == "help" :> [kind |-> "help", conv |-> "", help |-> ""]

AddStoreTrue(n, va, hm) == [kind |-> "store_true", conv |-> "", help |-> hm[n]]
AddValue(n, va, hm) == [kind |-> "store", conv |-> va[n], help |-> hm[n]]

\* every name registered as an on/off flag
AddArgumentAlwaysFlag(n, va, hm) == AddStoreTrue(n, va, hm)

\* the if/else of the loop body: the action add_argument registers for a name
AddArgument(n, va, hm) ==
    IF n \notin DOMAIN va THEN AddStoreTrue(n, va, hm) ELSE AddValue(n, va, hm)

\* a name without a help entry is registered with an empty help text
RECURSIVE RegisterHelpOptional(_, _, _, _, _)
RegisterHelpOptional(names, va, hm, i, opts) ==
    IF i > Len(names) THEN [err |-> "ok", opts |-> opts]
    ELSE LET n == names[i] IN
         IF n \in DOMAIN opts THEN [err |-> "ArgumentError", opts |-> opts]
         ELSE RegisterHelpOptional(names, va, hm, i + 1,
                  opts @@ (n :> AddArgument(n, va, hm @@ (n :> ""))))

\* for arg_name in arg_names: parser.add_argument(f"--{arg_name}", ...,
\* help=help_messages[arg_name]); the lookup runs before add_argument does
RECURSIVE Register(_, _, _, _, _)
Register(names, va, hm, i, opts) ==
    IF i > Len(names) THEN [err |-> "ok", opts |-> opts]
    ELSE LET n == names[i] IN
         IF n \notin DOMAIN hm THEN [err |-> "KeyError", opts |-> opts]
         ELSE IF n \in DOMAIN opts THEN [err |-> "ArgumentError", opts |-> opts]
         ELSE Register(names, va, hm, i + 1, opts @@ (n :> AddArgument(n, va, hm)))

\* the fields of a fresh Namespace: False for a flag, None for a value
Defaults(opts) ==
    [n \in DOMAIN opts \ {"help"} |->
        IF opts[n].kind = "store_true" THEN BoolVal(FALSE) ELSE NoneVal]

\* parser.parse_args() over the tokens from position i on
RECURSIVE ParseArgs(_, _, _, _, _)
ParseArgs(opts, toks, i, ns, extras) ==
    IF i > Len(toks)
    THEN IF extras THEN [err |-> "SystemExit2", ns |-> ns] ELSE [err |-> "ok", ns |-> ns]
    ELSE LET t == toks[i] IN
         IF ~t.opt \/ t.text \notin DOMAIN opts
         THEN ParseArgs(opts, toks, i + 1, ns, TRUE)
         ELSE IF opts[t.text].kind = "help"
         THEN [err |-> "SystemExit0", ns |-> ns]
         ELSE IF opts[t.text].kind = "store_true"
         THEN ParseArgs(opts, toks, i + 1, [ns EXCEPT ![t.text] = BoolVal(TRUE)], extras)
         ELSE IF i + 1 > Len(toks) \/ toks[i + 1].opt
         THEN [err |-> "SystemExit2", ns |-> ns]
         ELSE IF ~Convertible(opts[t.text].conv, toks[i + 1].text)
         THEN [err |-> "SystemExit2", ns |-> ns]
         ELSE ParseArgs(opts, toks, i + 2,
                        [ns EXCEPT ![t.text] = Convert(opts[t.text].conv, toks[i + 1].text)],
                        extras)

NoNamespace == <<>>

InitArgs ==
    /\ argsStatus = "idle"
    /\ LET reg == Register(arg_names, value_args, help_messages, 1, NewParser) IN
       IF reg.err # "ok"
       THEN /\ argsStatus' = reg.err
            /\ parsed' = FALSE
            /\ namespace' = NoNamespace
       ELSE LET r == ParseArgs(reg.opts, argv, 1, Defaults(reg.opts), FALSE) IN
            /\ argsStatus' = r.err
            /\ parsed' = TRUE
            /\ namespace' = IF r.err = "ok" THEN r.ns ELSE NoNamespace
    /\ UNCHANGED <<arg_names, value_args, help_messages, argv>>
    /\ UNCHANGED <<fsVars, logVars>>

(***************************************************************************)
(* Initial states and specifications                                       *)
(***************************************************************************)
EmptyFS == [p \in Paths |-> IF p = Root THEN "dir" ELSE "none"]

InitEnsure ==
    /\ pre = fs
    /\ folder_list = NoneArg
    /\ status = "idle"
    /\ failedAt = 0
    /\ warned = 0
    /\ again = FALSE

InitLog ==
    /\ level = WARNING
    /\ handlers = <<>>
    /\ prevHandlers = <<>>
    /\ history = <<>>
    /\ record = 0
    /\ written = {}
    /\ consoleLines = 0

InitCall ==
    /\ argsStatus = "idle"
    /\ parsed = FALSE
    /\ namespace = NoNamespace

NoArgs ==
    /\ arg_names = <<>>
    /\ value_args = <<>>
    /\ help_messages = <<>>
    /\ argv = <<>>

InitOfFS ==
    /\ fs \in FileSystems
    /\ InitEnsure
    /\ InitLog
    /\ NoArgs
    /\ InitCall

NextFS == \E a \in Args : EnsureFolders(a)

SpecFS == InitOfFS /\ [][NextFS]_vars

InitOfLog ==
    /\ fs = EmptyFS
    /\ InitEnsure
    /\ InitLog
    /\ NoArgs
    /\ InitCall

NextLog ==
    \/ \E c \in LoggerCalls : InitLogger(c)
    \/ \E s \in Levels : Log(s)

SpecLog == InitOfLog /\ [][NextLog]_vars

InitOfArgs ==
    /\ fs = EmptyFS
    /\ InitEnsure
    /\ InitLog
    /\ arg_names \in UNION {[1..n -> Names] : n \in 0..MaxArgs}
    /\ value_args \in UNION {[D -> Converters] : D \in SUBSET ValueNames}
    /\ help_messages \in UNION {[D -> HelpTexts] : D \in SUBSET Names}
    /\ argv \in UNION {[1..n -> Tokens] : n \in 0..MaxTokens}
    /\ InitCall

NextArgs == InitArgs

SpecArgs == InitOfArgs /\ [][NextArgs]_vars

(***************************************************************************)
(* Properties of ensure_folders (checked under SpecFS)                     *)
(***************************************************************************)
Called == status # "idle"
Items == folder_list.items
WithAncestors(p) == Ancestors(p) \cup {p}

\* a path is valid in f when no component of it is a non-directory file
ValidPath(f, p) == \A q \in WithAncestors(p) : f[q] # "file"
AllValid(f, items) == \A i \in DOMAIN items : ValidPath(f, items[i])

\* f after the first k paths of items, and their missing parents, are created
Created(f, items, k) ==
    [q \in Paths |->
        IF f[q] = "none" /\ \E i \in 1..k : q \in WithAncestors(items[i])
        THEN "dir" ELSE f[q]]

FirstInvalid(f, items) ==
    CHOOSE k \in DOMAIN items :
        /\ ~ValidPath(f, items[k])
        /\ \A j \in 1..(k - 1) : ValidPath(f, items[j])

C2_SecondCallChangesNothing ==
    (again /\ IsList(folder_list)) => (status = "ok" /\ fs = pre)

C2_Witness ==
    /\ again
    /\ status = "ok"
    /\ Items \in { << <<"a", "b">>, <<"a">> >>, << <<"a", "d">>, <<"a", "d">> >> }
    /\ fs = pre
    /\ fs[Items[1]] = "dir"

\* C3 (as claimed): ensure_folders([]), ensure_folders(None) and
\* ensure_folders("") change nothing on the filesystem, make one
\* logging.warning call and return without raising.
EmptyInput(a) ==
    \/ IsList(a) /\ Len(a.items) = 0
    \/ a.kind = "none"
    \/ a.kind = "str" /\ a.path = Root

C3_EmptyInputWarnsAndReturns ==
    (Called /\ EmptyInput(folder_list)) => (fs = pre /\ warned = 1 /\ status = "ok")

\* C8: when a path of the list cannot be created, the call ends with the
\* filesystem error of the first such path (the k-th); the paths before it and
\* their parents have been created and remain, and nothing else has changed:
\* no path after the k-th was created.
C8_FailureKeepsEarlierSkipsLater ==
    (Called /\ IsList(folder_list) /\ ~AllValid(pre, Items))
        => LET k == FirstInvalid(pre, Items) IN
           /\ status \in {"FileExistsError", "NotADirectoryError"}
           /\ failedAt = k
           /\ fs = Created(pre, Items, k - 1)

C8_Witness ==
    /\ Items = << <<"a", "b", "c">>, <<"a", "d">> >>
    /\ pre[<<"a", "b">>] = "none" /\ pre[<<"a", "d">>] = "file"
    /\ status = "FileExistsError" /\ failedAt = 2
    /\ fs[<<"a", "b">>] = "dir" /\ fs[<<"a", "b", "c">>] = "dir"
    /\ fs[<<"a", "d">>] = "file"

(***************************************************************************)
(* Properties of init_logger (checked under SpecLog)                       *)
(***************************************************************************)
Last(h) == h[Len(h)]
OkCalls(h) == {i \in DOMAIN h : h[i].ok}
StreamCalls(h) == {i \in OkCalls(h) : h[i].call.log_to_stream}
StreamSinks(hs) == {i \in DOMAIN hs : hs[i].kind = "stream"}
Logged == record # 0

\* the sinks the successful calls of h asked for, each at its call's log_level
RECURSIVE SinksOf(_)
SinksOf(h) ==
    IF Len(h) = 0 THEN <<>>
    ELSE LET c == Last(h).call
             f == IF c.log_to_file THEN <<[kind |-> "file", level |-> c.log_level]>> ELSE <<>>
             t == IF c.log_to_stream THEN <<[kind |-> "stream", level |-> c.log_level]>> ELSE <<>>
         IN SinksOf(SubSeq(h, 1, Len(h) - 1)) \o f \o t

RECURSIVE Flags(_)
Flags(h) ==
    IF Len(h) = 0 THEN 0
    ELSE Flags(SubSeq(h, 1, Len(h) - 1))
         + (IF Last(h).call.log_to_file THEN 1 ELSE 0)
         + (IF Last(h).call.log_to_stream THEN 1 ELSE 0)

\* C4 (as claimed): after two successful init_logger calls with
\* log_to_stream=True, every message logged afterwards appears twice on the
\* console.
C4_EveryMessageTwice ==
    (Cardinality(StreamCalls(history)) = 2 /\ Logged) => consoleLines = 2

\* C4 (amended): no call removes a console sink, and after two successful
\* calls with log_to_stream=True a message appears on the console once for
\* each of the two calls whose log_level it reaches, provided it reaches the
\* log_level of the most recent call; otherwise it does not appear.
C4_TwiceWhenAtOrAboveThresholds ==
    /\ Cardinality(StreamSinks(handlers)) = Cardinality(StreamCalls(history))
    /\ (Cardinality(StreamCalls(history)) = 2 /\ Logged)
        => consoleLines =
             IF record >= Last(history).call.log_level
             THEN Cardinality({i \in StreamCalls(history) : record >= history[i].call.log_level})
             ELSE 0

C4_Witness ==
    /\ Len(history) = 2
    /\ Cardinality(StreamCalls(history)) = 2
    /\ history[1].call.log_level # history[2].call.log_level
    /\ Logged
    /\ record >= history[1].call.log_level /\ record >= history[2].call.log_level
    /\ consoleLines = 2

\* C5: after one init_logger(L, log_to_stream=True, log_to_file=False) on a
\* logger without sinks, a message below L produces no console line and a
\* message at L or above produces exactly one.
C5_OneLineAtOrAboveLevel ==
    (/\ Len(history) = 1
     /\ history[1].ok
     /\ history[1].call.log_to_stream
     /\ ~history[1].call.log_to_file
     /\ Logged)
        => consoleLines = IF record >= history[1].call.log_level THEN 1 ELSE 0

C5_Witness ==
    /\ Len(history) = 1
    /\ history[1].call.log_level = INFO
    /\ history[1].call.log_to_stream /\ ~history[1].call.log_to_file
    /\ record = INFO
    /\ consoleLines = 1

\* C9: after successful init_logger calls only, the logger's level is the
\* last call's log_level, the sinks are the ones the calls asked for, each at
\* its own call's log_level, as many as the enabled flags of all calls, and a
\* sink wrote the last message exactly when the message reaches the last
\* call's log_level and the sink's own.
C9_LevelsAndSinks ==
    (Len(history) > 0 /\ OkCalls(history) = DOMAIN history)
        => /\ level = Last(history).call.log_level
           /\ handlers = SinksOf(history)
           /\ Len(handlers) = Flags(history)
           /\ Logged => written =
                {i \in DOMAIN handlers :
                    /\ record >= Last(history).call.log_level
                    /\ record >= SinksOf(history)[i].level}

C9_Witness ==
    /\ Len(history) = 2
    /\ OkCalls(history) = DOMAIN history
    /\ history[1].call.log_level < history[2].call.log_level
    /\ Len(handlers) = 4
    /\ record = history[2].call.log_level
    /\ written = {1, 2, 3, 4}

\* C10: an init_logger call with log_to_file=True and a path that cannot be
\* opened fails; the logger's level is already the new log_level, the call
\* attached no sink, the console sink included, and the earlier sinks remain.
C10_FailedOpenAttachesNothing ==
    (/\ Len(history) > 0
     /\ Last(history).call.log_to_file
     /\ ~CanOpen(Last(history).call.logfile_path))
        => /\ ~Last(history).ok
           /\ level = Last(history).call.log_level
           /\ handlers = prevHandlers

C10_Witness ==
    /\ Len(history) = 2
    /\ history[1].ok
    /\ ~history[2].ok
    /\ history[2].call.log_to_stream
    /\ history[1].call.log_level # history[2].call.log_level
    /\ level = history[2].call.log_level
    /\ Len(handlers) = 2
    /\ handlers = prevHandlers

(***************************************************************************)
(* Properties of init_args (checked under SpecArgs)                        *)
(***************************************************************************)
Returned == argsStatus # "idle"
Declared == {arg_names[i] : i \in DOMAIN arg_names}

\* the schema of the data model: unique names, none taken by the parser itself
ValidSchema ==
    /\ \A i, j \in DOMAIN arg_names : arg_names[i] = arg_names[j] => i = j
    /\ "help" \notin Declared

HelpComplete == Declared \subseteq DOMAIN help_messages
TakesValue(n) == n \in DOMAIN value_args

\* every flag is a declared one, a value-taking flag is followed by one word
\* its converter accepts, and every word follows a value-taking flag
WellFormed ==
    \A i \in DOMAIN argv :
        IF argv[i].opt
        THEN /\ argv[i].text \in Declared
             /\ TakesValue(argv[i].text) =>
                    /\ i + 1 <= Len(argv)
                    /\ ~argv[i + 1].opt
                    /\ Convertible(value_args[argv[i].text], argv[i + 1].text)
        ELSE /\ i > 1
             /\ argv[i - 1].opt
             /\ argv[i - 1].text \in Declared
             /\ TakesValue(argv[i - 1].text)

Supplied(n) == \E i \in DOMAIN argv : argv[i] = Flag(n)
LastOf(n) == CHOOSE i \in DOMAIN argv : argv[i] = Flag(n) /\ \A j \in DOMAIN argv : argv[j] = Flag(n) => j <= i

\* C6: with a name of arg_names missing from help_messages, init_args fails
\* with a KeyError while registering the flags and never reaches parse_args,
\* wherever the name stands and whether or not it is in value_args.
C6_MissingHelpFailsBeforeParsing ==
    (Returned /\ ValidSchema /\ ~HelpComplete) => (argsStatus = "KeyError" /\ ~parsed)

C6_Witness ==
    /\ argsStatus = "KeyError"
    /\ ~parsed
    /\ arg_names = <<"verbose", "count">>
    /\ DOMAIN help_messages = {"verbose"}
    /\ "count" \in DOMAIN value_args
    /\ argv = <<Flag("count"), Word("5")>>

\* C7: for a schema with a help entry for every name and a well-formed
\* command line, init_args returns one field per name: the converted word
\* after --<name> for a value name (None when the flag is not supplied), True
\* or False for a flag name as --<name> is present or absent.
C7_FieldsOfResult ==
    (Returned /\ ValidSchema /\ HelpComplete /\ WellFormed)
        => /\ argsStatus = "ok"
           /\ DOMAIN namespace = Declared
           /\ \A n \in Declared :
                namespace[n] =
                    IF TakesValue(n)
                    THEN IF Supplied(n)
                         THEN Convert(value_args[n], argv[LastOf(n) + 1].text)
                         ELSE NoneVal
                    ELSE BoolVal(Supplied(n))

C7_Witness ==
    /\ argsStatus = "ok"
    /\ arg_names = <<"count", "verbose">>
    /\ value_args = ("count" :> "int")
    /\ argv = <<Flag("count"), Word("5")>>
    /\ namespace["count"] = IntVal(5)
    /\ namespace["verbose"] = BoolVal(FALSE)

====
